---------------------------- MODULE Spec2Model ----------------------------
(***************************************************************************)
(* A model of vitarit: an in-memory distributed key-value cache whose      *)
(* peers find each other by multicast heartbeats and route keys over a     *)
(* CRC-32 consistent-hash ring.                                            *)
(*                                                                         *)
(* Strings are sequences of one-character strings, so that formatting a    *)
(* URL and parsing its query are computed character by character.  A       *)
(* uint32 u is represented by the integer u - 2^31 (TLC integers are 32    *)
(* bit signed): equality and order of hashes are those of the uint32, and  *)
(* no arithmetic is ever done on a finished hash.                          *)
(***************************************************************************)
EXTENDS Integers, Sequences, FiniteSets, TLC

(***************************************************************************)
(* Bytes of a string                                                       *)
(***************************************************************************)

\* The printable ASCII characters, code 32 (space) to 126 (~), in order (the
\* backquote, code 96, is written "<bq>").
Ascii ==
    << " ", "!", "\"", "#", "$", "%", "&", "'", "(", ")", "*", "+", ",", "-", ".", "/",
       "0", "1", "2", "3", "4", "5", "6", "7", "8", "9", ":", ";", "<", "=", ">", "?",
       "@", "A", "B", "C", "D", "E", "F", "G", "H", "I", "J", "K", "L", "M", "N", "O",
       "P", "Q", "R", "S", "T", "U", "V", "W", "X", "Y", "Z", "[", "\\", "]", "^", "_",
       "<bq>", "a", "b", "c", "d", "e", "f", "g", "h", "i", "j", "k", "l", "m", "n", "o",
       "p", "q", "r", "s", "t", "u", "v", "w", "x", "y", "z", "{", "|", "}", "~" >>

\* []byte(s)[i]: the byte of a character.
Ord(c) == 31 + (CHOOSE i \in 1..Len(Ascii) : Ascii[i] = c)

\* The character of a byte; a byte that is not printable ASCII is shown as "<np>".
Chr(b) == IF b >= 32 /\ b <= 126 THEN Ascii[b - 31] ELSE "<np>"

\* []byte(s)
Bytes(s) == [i \in 1..Len(s) |-> Ord(s[i])]

(***************************************************************************)
(* hash/crc32.ChecksumIEEE, on two 16 bit halves <<hi, lo>>                *)
(***************************************************************************)

RECURSIVE Xor(_, _, _)
\* The bitwise exclusive or of the w low bits of a and b.
Xor(a, b, w) ==
    IF w = 0 THEN 0
    ELSE ((a + b) % 2) + 2 * Xor(a \div 2, b \div 2, w - 1)

\* The reversed IEEE polynomial 0xEDB88320.
PolyHi == 60856
PolyLo == 33568

\* One bit of the update: crc = (crc >> 1) ^ (poly if the low bit was set).
CrcShift(crc) ==
    LET hi == crc[1] \div 2
        lo == (crc[2] \div 2) + 32768 * (crc[1] % 2)
    IN  IF crc[2] % 2 = 1
        THEN << Xor(hi, PolyHi, 16), Xor(lo, PolyLo, 16) >>
        ELSE << hi, lo >>

\* One byte of the update: xor the byte into the low bits, then eight shifts.
CrcByte(crc, b) ==
    LET c0 == << crc[1], Xor(crc[2], b, 16) >>
    IN  CrcShift(CrcShift(CrcShift(CrcShift(CrcShift(CrcShift(CrcShift(CrcShift(c0))))))))

RECURSIVE CrcBytes(_)
\* The update loop over the bytes; st is the pair << crc, bytes left >>.
CrcBytes(st) ==
    IF st[2] = << >> THEN st[1]
    ELSE CrcBytes(<< CrcByte(st[1], Head(st[2])), Tail(st[2]) >>)

\* crc32.ChecksumIEEE(bs) as a uint32 minus 2^31.
ChecksumIEEE(bs) ==
    LET c == CrcBytes(<< << 65535, 65535 >>, bs >>)
        hi == Xor(c[1], 65535, 16)
        lo == Xor(c[2], 65535, 16)
    IN  (hi - 32768) * 65536 + lo

(***************************************************************************)
(* The cluster of the model                                                *)
(***************************************************************************)

\* Identifiers.  The ids "plumless" and "buckeroo" have the same CRC-32.
IdN1 == << "n", "1" >>
IdN2 == << "n", "2" >>
IdPlumless == << "p", "l", "u", "m", "l", "e", "s", "s" >>
IdBuckeroo == << "b", "u", "c", "k", "e", "r", "o", "o" >>
\* An id with a character that ends the query of a URL.
IdN4 == << "n", "#", "4" >>

\* The processes, and the nodeInfo each is constructed with (NewVitarit).
Procs == { "p1", "p2", "p3", "p4" }

LocalHost == << "1", "2", "7", ".", "0", ".", "0", ".", "1" >>

NewVitarit ==
    [ p1 |-> [ ID |-> IdPlumless, IP |-> LocalHost, Port |-> << "8", "1" >>, GroupID |-> << "A" >> ],
      p2 |-> [ ID |-> IdN2, IP |-> LocalHost, Port |-> << "8", "2" >>, GroupID |-> << "B" >> ],
      p3 |-> [ ID |-> IdN1, IP |-> LocalHost, Port |-> << "8", "3" >>, GroupID |-> << "A" >> ],
      p4 |-> [ ID |-> IdN4, IP |-> LocalHost, Port |-> << "8", "5" >>, GroupID |-> << "B" >> ] ]

\* A host of the LAN that is no process of the model: it only sends heartbeats.
Stranger ==
    [ ID |-> IdBuckeroo, IP |-> LocalHost, Port |-> << "8", "4" >>, GroupID |-> << "C" >> ]

\* Every nodeInfo a heartbeat of the model announces.
Peers == { NewVitarit[p] : p \in Procs } \cup { Stranger }

\* Keys and values the clients use; the second key holds the character that
\* separates the pairs of a query.
Keys == { << "k" >>, << "k", "&", "q" >> }
Values == { << 1 >>, << 2, 3 >> }

\* crc32.ChecksumIEEE([]byte(s)), computed once for every string that is hashed.
crcOf == [ s \in { q.ID : q \in Peers } \cup Keys |-> ChecksumIEEE(Bytes(s)) ]
Hash(s) == crcOf[s]

\* crc32.ChecksumIEEE(value), computed once for every value.
crcOfValue == [ v \in Values |-> ChecksumIEEE(v) ]

(***************************************************************************)
(* hashRing (hashRing.go)                                                  *)
(*                                                                         *)
(* A ring is a record [nodes, sortedHashes, nodeMap]; nodeMap is a         *)
(* function from the hashes present to the nodeInfo of the cacheNode; the  *)
(* index of a Go slice is kept 0 based where the code computes with it.    *)
(***************************************************************************)

NewHashRing == [ nodes |-> << >>, sortedHashes |-> << >>, nodeMap |-> << >> ]

\* An insertion that puts the new hash first, wherever it belongs.
InsertFront(h, s) == << h >> \o s

RECURSIVE InsertSorted(_, _)
InsertSorted(h, s) ==
    IF s = << >> THEN << h >>
    ELSE IF h < Head(s) THEN << h >> \o s
    ELSE << Head(s) >> \o InsertSorted(h, Tail(s))

RECURSIVE SortSlice(_)
\* sort.Slice(s, less) with less(i, j) == s[i] < s[j]: an insertion sort.
SortSlice(s) == IF s = << >> THEN << >> ELSE InsertSorted(Head(s), SortSlice(Tail(s)))

\* The function f with the key k deleted / set.
MapDelete(f, k) == [ x \in DOMAIN f \ { k } |-> f[x] ]
MapSet(f, k, v) == [ x \in DOMAIN f \cup { k } |-> IF x = k THEN v ELSE f[x] ]

\* s without its element at (1 based) index i.
RemoveAt(s, i) == SubSeq(s, 1, i - 1) \o SubSeq(s, i + 1, Len(s))

\* The first (1 based) index of the hash h in a slice of hashes, 0 if none.
FirstHash(s, h) ==
    IF \E i \in 1..Len(s) : s[i] = h
    THEN CHOOSE i \in 1..Len(s) : s[i] = h /\ \A j \in 1..(i - 1) : s[j] # h
    ELSE 0

\* The first (1 based) index of the node with the id in a slice of nodes, 0 if none.
FirstNode(s, id) ==
    IF \E i \in 1..Len(s) : s[i].ID = id
    THEN CHOOSE i \in 1..Len(s) : s[i].ID = id /\ \A j \in 1..(i - 1) : s[j].ID # id
    ELSE 0

\* addNode without the sort.Slice that ends it.
addNodeUnsorted(ring, node) ==
    LET hash == Hash(node.ID)
    IN  IF hash \in DOMAIN ring.nodeMap
        THEN ring
        ELSE [ nodes |-> Append(ring.nodes, node),
               sortedHashes |-> Append(ring.sortedHashes, hash),
               nodeMap |-> MapSet(ring.nodeMap, hash, node) ]

\* An addNode that stores the node it is given under a hash the ring has.
addNodeOverwrite(ring, node) ==
    LET hash == Hash(node.ID)
    IN  IF hash \in DOMAIN ring.nodeMap
        THEN [ ring EXCEPT !.nodeMap = MapSet(ring.nodeMap, hash, node) ]
        ELSE [ nodes |-> Append(ring.nodes, node),
               sortedHashes |-> SortSlice(Append(ring.sortedHashes, hash)),
               nodeMap |-> MapSet(ring.nodeMap, hash, node) ]

\* hashRing.addNode
hashRing_addNode(ring, node) ==
    LET hash == Hash(node.ID)
    IN  IF hash \in DOMAIN ring.nodeMap
        THEN ring
        ELSE [ nodes |-> Append(ring.nodes, node),
               sortedHashes |-> SortSlice(Append(ring.sortedHashes, hash)),
               nodeMap |-> MapSet(ring.nodeMap, hash, node) ]

\* hashRing.removeNode
hashRing_removeNode(ring, nodeID) ==
    LET hash == Hash(nodeID)
        i == FirstHash(ring.sortedHashes, hash)
        j == FirstNode(ring.nodes, nodeID)
    IN  IF hash \notin DOMAIN ring.nodeMap
        THEN ring
        ELSE [ nodes |-> IF j = 0 THEN ring.nodes ELSE RemoveAt(ring.nodes, j),
               sortedHashes |-> IF i = 0 THEN ring.sortedHashes
                                ELSE RemoveAt(ring.sortedHashes, i),
               nodeMap |-> MapDelete(ring.nodeMap, hash) ]

\* The nil *cacheNode.
Nil == [ ID |-> << >>, IP |-> << >>, Port |-> << >>, GroupID |-> << "n", "i", "l" >> ]

\* hashRing.getNodeByID: the map's zero value, nil, when the hash is absent.
getNodeByID(ring, id) ==
    IF Hash(id) \in DOMAIN ring.nodeMap THEN ring.nodeMap[Hash(id)] ELSE Nil

RECURSIVE SearchLoop(_, _, _, _)
\* The loop of sort.Search: i, j are 0 based, s[h + 1] is the Go s[h].
SearchLoop(s, hash, i, j) ==
    IF i < j
    THEN LET h == (i + j) \div 2
         IN  IF ~(s[h + 1] >= hash)
             THEN SearchLoop(s, hash, h + 1, j)
             ELSE SearchLoop(s, hash, i, h)
    ELSE i

\* sort.Search(len(s), func(i) { return s[i] >= hash })
SortSearch(s, hash) == SearchLoop(s, hash, 0, Len(s))

\* Indexing sortedHashes[0] of a ring that holds no node: the goroutine panics.
IndexPanics(ring) == Len(ring.sortedHashes) = 0

\* A wrap to the last index instead of index 0.
WrapToLast(found, n) == IF found = n THEN n - 1 ELSE found

\* idx of getNode and getNodes: what sort.Search found, 0 when it found n.
WrapIndex(found, n) == IF found = n THEN 0 ELSE found

\* ring.nodeMap[ring.sortedHashes[idx]] for a 0 based idx
NodeAt(ring, idx) == ring.nodeMap[ring.sortedHashes[idx + 1]]

\* hashRing.getNode: the owner of the key (Nil stands for the panic).
getNode(ring, key) ==
    IF IndexPanics(ring) THEN Nil
    ELSE NodeAt(ring, WrapIndex(SortSearch(ring.sortedHashes, Hash(key)),
                                Len(ring.sortedHashes)))

RECURSIVE WalkRingNoBreak(_, _, _, _, _)
\* The loop of getNodes without its test idx == masterIdx.
WalkRingNoBreak(ring, idx, masterIdx, redundancy, nodes) ==
    IF redundancy > 0
    THEN LET next == IF idx + 1 >= Len(ring.sortedHashes) THEN 0 ELSE idx + 1
         IN  WalkRingNoBreak(ring, next, masterIdx, redundancy - 1,
                             Append(nodes, ring.nodeMap[ring.sortedHashes[next + 1]]))
    ELSE nodes

RECURSIVE WalkRing(_, _, _, _, _)
\* The loop of getNodes, from the 0 based index idx with the list so far.
WalkRing(ring, idx, masterIdx, redundancy, nodes) ==
    IF redundancy > 0
    THEN LET next == IF idx + 1 >= Len(ring.sortedHashes) THEN 0 ELSE idx + 1
         IN  IF next = masterIdx
             THEN nodes
             ELSE WalkRing(ring, next, masterIdx, redundancy - 1,
                           Append(nodes, NodeAt(ring, next)))
    ELSE nodes

\* The replica list that starts at idx and walks the ring downwards.
NodesFromDownwards(ring, idx, redundancy) ==
    LET n == Len(ring.sortedHashes)
        count == IF redundancy + 1 < n THEN redundancy + 1 ELSE n
    IN  [ j \in 1..count |-> ring.nodeMap[ring.sortedHashes[((idx + n - (j - 1)) % n) + 1]] ]

\* The replica list that starts at the 0 based index idx.
NodesFrom(ring, idx, redundancy) ==
    WalkRing(ring, idx, idx, redundancy, << NodeAt(ring, idx) >>)

\* hashRing.getNodes: the replica list (the empty list stands for the panic).
getNodes(ring, key, redundancy) ==
    IF IndexPanics(ring) THEN << >>
    ELSE NodesFrom(ring, WrapIndex(SortSearch(ring.sortedHashes, Hash(key)),
                                   Len(ring.sortedHashes)), redundancy)

(***************************************************************************)
(* Text: fmt.Sprintf("%d"), strconv.Atoi, net/url                          *)
(***************************************************************************)

\* The string literal "..." as a sequence of characters is written S1 \o S2.
Digits == << "0", "1", "2", "3", "4", "5", "6", "7", "8", "9" >>

IsDigit(c) == \E i \in 1..10 : Digits[i] = c
DigitVal(c) == (CHOOSE i \in 1..10 : Digits[i] = c) - 1

RECURSIVE FormatNat(_)
FormatNat(n) ==
    IF n < 10 THEN << Digits[n + 1] >>
    ELSE FormatNat(n \div 10) \o << Digits[(n % 10) + 1] >>

\* fmt.Sprintf("%d", i)
FormatInt(i) == IF i < 0 THEN << "-" >> \o FormatNat(0 - i) ELSE FormatNat(i)

RECURSIVE ParseNat(_, _)
ParseNat(s, acc) ==
    IF s = << >> THEN acc ELSE ParseNat(Tail(s), 10 * acc + DigitVal(Head(s)))

\* strconv.Atoi(s): [ok, val]; an optional sign, then one digit or more.
Atoi(s) ==
    LET signed == s # << >> /\ Head(s) \in { "+", "-" }
        body == IF signed THEN Tail(s) ELSE s
        ok == body # << >> /\ \A i \in 1..Len(body) : IsDigit(body[i])
    IN  IF ~ok THEN [ ok |-> FALSE, val |-> 0 ]
        ELSE [ ok |-> TRUE,
               val |-> IF signed /\ Head(s) = "-" THEN 0 - ParseNat(body, 0)
                       ELSE ParseNat(body, 0) ]

\* The index of the first c in s, 0 if none.
IndexOf(s, c) ==
    IF \E i \in 1..Len(s) : s[i] = c
    THEN CHOOSE i \in 1..Len(s) : s[i] = c /\ \A j \in 1..(i - 1) : s[j] # c
    ELSE 0

\* strings.Cut(s, c): the text before the first c and the text after it.
CutBefore(s, c) == IF IndexOf(s, c) = 0 THEN s ELSE SubSeq(s, 1, IndexOf(s, c) - 1)
CutAfter(s, c) == IF IndexOf(s, c) = 0 THEN << >> ELSE SubSeq(s, IndexOf(s, c) + 1, Len(s))

HexDigits == << "0", "1", "2", "3", "4", "5", "6", "7", "8", "9",
                "a", "b", "c", "d", "e", "f", "A", "B", "C", "D", "E", "F" >>
IsHex(c) == \E i \in 1..22 : HexDigits[i] = c
HexVal(c) == LET i == CHOOSE j \in 1..22 : HexDigits[j] = c
             IN  IF i <= 16 THEN i - 1 ELSE i - 7

\* url.QueryUnescape finds a % that two hexadecimal digits do not follow.
BadEscape(s) ==
    \E i \in 1..Len(s) :
        /\ s[i] = "%"
        /\ ~(i + 2 <= Len(s) /\ IsHex(s[i + 1]) /\ IsHex(s[i + 2]))

RECURSIVE UnescapeFrom(_, _)
UnescapeFrom(s, i) ==
    IF i > Len(s) THEN << >>
    ELSE IF s[i] = "%"
         THEN << Chr(16 * HexVal(s[i + 1]) + HexVal(s[i + 2])) >> \o UnescapeFrom(s, i + 3)
    ELSE IF s[i] = "+" THEN << " " >> \o UnescapeFrom(s, i + 1)
    ELSE << s[i] >> \o UnescapeFrom(s, i + 1)

\* url.QueryUnescape(s): [ok, val]
QueryUnescape(s) ==
    IF BadEscape(s) THEN [ ok |-> FALSE, val |-> << >> ]
    ELSE [ ok |-> TRUE, val |-> UnescapeFrom(s, 1) ]

RECURSIVE QueryGet(_, _)
\* url.ParseQuery(query) followed by Values.Get(name): the value of the first
\* setting of name, "" if there is none.  A setting that holds a semicolon or
\* a bad escape is skipped (Query() drops ParseQuery's error).
QueryGet(query, name) ==
    IF query = << >> THEN << >>
    ELSE LET setting == CutBefore(query, "&")
             rest == CutAfter(query, "&")
             k == QueryUnescape(CutBefore(setting, "="))
             v == QueryUnescape(CutAfter(setting, "="))
         IN  IF IndexOf(setting, ";") # 0 \/ setting = << >> \/ ~k.ok \/ ~v.ok
             THEN QueryGet(rest, name)
             ELSE IF k.val = name THEN v.val
             ELSE QueryGet(rest, name)

\* url.Parse of "https://" + rest: the fragment starts at the first #, the
\* query at the first ? before it, and the host is what precedes the query.
URLHost(rest) == CutBefore(CutBefore(rest, "#"), "?")
URLRawQuery(rest) == CutAfter(CutBefore(rest, "#"), "?")

\* createURL: fmt.Sprintf("https://%s:%s?id=%s&key=%s", IP, Port, ID, key),
\* without the scheme.
createURL(cnode, key) ==
    cnode.IP \o << ":" >> \o cnode.Port \o << "?", "i", "d", "=" >> \o cnode.ID
        \o << "&", "k", "e", "y", "=" >> \o key

\* createURLForSet: fmt.Sprintf("https://%s:%s?id=%s&copy=%d", IP, Port, ID, copy)
createURLForSet(cnode, key, copy) ==
    cnode.IP \o << ":" >> \o cnode.Port \o << "?", "i", "d", "=" >> \o cnode.ID
        \o << "&", "c", "o", "p", "y", "=" >> \o FormatInt(copy)

(***************************************************************************)
(* State                                                                   *)
(***************************************************************************)

VARIABLES
    state,       \* Vitarit of each process: "new", "started", "stopped",
                 \* "panicked" (a goroutine panicked) or "exited" (log.Fatalf)
    redundancy,  \* distributedCache.redundancy
    nodeHB,      \* distributedCache.nodeHB: node id -> instant last seen
    hashRing,    \* distributedCache.hashRing
    discovery,   \* peerDiscovery: sendConn, recvConn, cancel
    tasks,       \* the goroutines monitorHeartbeats, sendHeartbeats, receiveHeartbeats
    node,        \* the variable node of receiveHeartbeats
    server,      \* the https server of the local cacheNode
    data,        \* the data of the local cacheNode: key -> cacheData
    now,         \* time.Now(), in seconds
    last,        \* the last call of Get, Set or Remove and what it did
    calls,       \* the number of client calls made
    mtx,         \* distributedCache.mtx and hashRing.mtx: the goroutine that holds each
    pc           \* what each goroutine has still to do inside addNode, a sweep or a lookup

vars == << state, redundancy, nodeHB, hashRing, discovery, tasks, node,
           server, data, now, last, calls, mtx, pc >>

\* Bounds of the model.
MaxTicks == 2
MaxCalls == 1
MaxRedundancy == 1
MaxNodes == 4

\* monitorInterval = 10 * time.Second
monitorInterval == 10

\* The zero nodeInfo (var node nodeInfo).
ZeroNodeInfo == [ ID |-> << >>, IP |-> << >>, Port |-> << >>, GroupID |-> << >> ]

NoCall == [ op |-> "none", by |-> "", key |-> << >>, value |-> << >>, ok |-> FALSE,
            tried |-> << >>, panic |-> FALSE ]

Init ==
    /\ state = [ p \in Procs |-> "new" ]
    /\ redundancy = [ p \in Procs |-> 0 ]
    /\ nodeHB = [ p \in Procs |-> << >> ]
    /\ hashRing = [ p \in Procs |-> NewHashRing ]
    /\ discovery = [ p \in Procs |-> [ sendConn |-> "nil", recvConn |-> "nil", cancel |-> "nil" ] ]
    /\ tasks = [ p \in Procs |-> [ monitor |-> "none", sender |-> "none", receiver |-> "none" ] ]
    /\ node = [ p \in Procs |-> ZeroNodeInfo ]
    /\ server = [ p \in Procs |-> "nil" ]
    /\ data = [ p \in Procs |-> << >> ]
    /\ now = 0
    /\ last = NoCall
    /\ calls = 0
    /\ mtx = [ p \in Procs |-> [ cache |-> "free", ring |-> "free" ] ]
    /\ pc = [ p \in Procs |-> [ receiver |-> << >>, monitor |-> << >>, client |-> << >> ] ]

(***************************************************************************)
(* distributedCache: membership (distributedCache.go)                      *)
(*                                                                         *)
(* A cache is the pair [nodeHB, hashRing] of one process.                  *)
(***************************************************************************)

Cache(p) == [ nodeHB |-> nodeHB[p], hashRing |-> hashRing[p] ]

\* distributedCache.addNode at the instant t
addNode(cache, info, t) ==
    [ nodeHB |-> MapSet(cache.nodeHB, info.ID, t),
      hashRing |-> IF info.ID \in DOMAIN cache.nodeHB
                   THEN cache.hashRing
                   ELSE hashRing_addNode(cache.hashRing, info) ]

\* A removal that forgets the id and leaves the ring as it is.
removeFromRegistryOnly(cache, nodeID) ==
    [ nodeHB |-> MapDelete(cache.nodeHB, nodeID), hashRing |-> cache.hashRing ]

\* distributedCache.removeNode_unlocked
removeNode_unlocked(cache, nodeID) ==
    [ nodeHB |-> MapDelete(cache.nodeHB, nodeID),
      hashRing |-> hashRing_removeNode(cache.hashRing, nodeID) ]

\* The condition under which the monitor removes a node.
Expired(lastSeen, t) == t - lastSeen > monitorInterval

RECURSIVE RemoveAll(_, _)
RemoveAll(cache, ids) ==
    IF ids = << >> THEN cache
    ELSE RemoveAll(removeNode_unlocked(cache, Head(ids)), Tail(ids))

\* The orders in which a range over a Go map can visit the ids of a set.
Orders(ids) ==
    { o \in [ 1..Cardinality(ids) -> ids ] : \A i, j \in DOMAIN o : i # j => o[i] # o[j] }

\* The ids one sweep of monitorHeartbeats removes at the instant t.
Stale(cache, myNodeID, t) ==
    { id \in DOMAIN cache.nodeHB : id # myNodeID /\ Expired(cache.nodeHB[id], t) }

(***************************************************************************)
(* Heartbeats: encoding/json of a nodeInfo                                 *)
(*                                                                         *)
(* A datagram that is a JSON object is the record of the members it holds; *)
(* one that is no JSON is the record Garbage.                              *)
(***************************************************************************)

\* json.Marshal(node)
Marshal(info) ==
    [ node_id |-> info.ID, node_ip |-> info.IP, node_port |-> info.Port,
      group_id |-> info.GroupID ]

Garbage == [ garbage |-> << "{" >> ]

\* json.Unmarshal(buf[:n], &node): a member the object lacks leaves its field
\* as it was; a syntax error leaves node untouched.
Unmarshal(d, into) ==
    IF "garbage" \in DOMAIN d THEN [ err |-> TRUE, node |-> into ]
    ELSE [ err |-> FALSE,
           node |-> [ ID |-> IF "node_id" \in DOMAIN d THEN d.node_id ELSE into.ID,
                      IP |-> IF "node_ip" \in DOMAIN d THEN d.node_ip ELSE into.IP,
                      Port |-> IF "node_port" \in DOMAIN d THEN d.node_port ELSE into.Port,
                      GroupID |-> IF "group_id" \in DOMAIN d THEN d.group_id ELSE into.GroupID ] ]

\* What hosts that are no process of the model multicast: the heartbeat of
\* every peer, a heartbeat that holds the stranger's id alone, and a datagram
\* that is no JSON.
Lan == { Marshal(i) : i \in Peers } \cup { [ node_id |-> Stranger.ID ], Garbage }

\* The datagrams the processes of the model multicast: the heartbeat of every
\* process whose sender runs on an open socket.  A receiver
\* takes any of them at any time, or misses it; a datagram does not outlive
\* the sender's loop.
Heartbeats ==
    { Marshal(NewVitarit[q]) : q \in { r \in Procs : /\ tasks[r].sender = "run"
                                                    /\ discovery[r].sendConn = "open" } }

(***************************************************************************)
(* Processes                                                               *)
(***************************************************************************)

Alive(p) == state[p] \in { "started", "stopped" }

\* The process p ends (a panic, or log.Fatalf): its goroutines, its sockets
\* and its memory are gone.  The variables not named here are left to the
\* action that calls it.
EndProcess(p, how) ==
    /\ state' = [ state EXCEPT ![p] = how ]
    /\ nodeHB' = [ nodeHB EXCEPT ![p] = << >> ]
    /\ hashRing' = [ hashRing EXCEPT ![p] = NewHashRing ]
    /\ discovery' = [ discovery EXCEPT ![p] =
                        [ sendConn |-> IF @.sendConn = "nil" THEN "nil" ELSE "closed",
                          recvConn |-> IF @.recvConn = "nil" THEN "nil" ELSE "closed",
                          cancel |-> @.cancel ] ]
    /\ tasks' = [ tasks EXCEPT ![p] = [ monitor |-> "none", sender |-> "none", receiver |-> "none" ] ]
    /\ node' = [ node EXCEPT ![p] = ZeroNodeInfo ]
    /\ server' = [ server EXCEPT ![p] = "nil" ]
    /\ data' = [ data EXCEPT ![p] = << >> ]

\* What setupMulticastUDP can do: succeed, or fail at DialUDP, at
\* ListenMulticastUDP or at SetMulticastLoopback.
SetupOutcomes == { "ok", "dialErr", "listenErr", "loopbackErr" }

\* setupMulticastUDP followed by the rest of startDiscovery
startDiscovery(setup) ==
    [ sendConn |-> IF setup = "dialErr" THEN "nil" ELSE "open",
      recvConn |-> IF setup \in { "dialErr", "listenErr" } THEN "nil" ELSE "open",
      cancel |-> IF setup = "ok" THEN "set" ELSE "nil" ]

\* Vitarit.Start(r): newDistributedCache, addNode of the local node,
\* distributedCache.start (go startServer, startDiscovery).
Start(p, r, setup) ==
    LET cache == addNode([ nodeHB |-> << >>, hashRing |-> NewHashRing ], NewVitarit[p], now)
    IN  /\ state[p] = "new"
        /\ state' = [ state EXCEPT ![p] = "started" ]
        /\ redundancy' = [ redundancy EXCEPT ![p] = r ]
        /\ nodeHB' = [ nodeHB EXCEPT ![p] = cache.nodeHB ]
        /\ hashRing' = [ hashRing EXCEPT ![p] = cache.hashRing ]
        /\ server' = [ server EXCEPT ![p] = "starting" ]
        /\ discovery' = [ discovery EXCEPT ![p] = startDiscovery(setup) ]
        /\ tasks' = [ tasks EXCEPT ![p] =
                        IF setup = "ok"
                        THEN [ monitor |-> "run", sender |-> "run", receiver |-> "read" ]
                        ELSE @ ]
        /\ UNCHANGED << node, data, now, last, calls, mtx, pc >>

\* Vitarit.Stop: stopDiscovery calls cancel, which is nil when startDiscovery
\* returned early, and closes both sockets.
Stop(p) ==
    /\ state[p] = "started"
    /\ IF discovery[p].cancel = "nil"
       THEN /\ EndProcess(p, "panicked")
            /\ UNCHANGED << redundancy, now, last, calls, mtx, pc >>
       ELSE /\ state' = [ state EXCEPT ![p] = "stopped" ]
            /\ discovery' = [ discovery EXCEPT ![p] =
                                [ sendConn |-> "closed", recvConn |-> "closed", cancel |-> "called" ] ]
            /\ UNCHANGED << redundancy, nodeHB, hashRing, tasks, node, server, data,
                            now, last, calls, mtx, pc >>

\* cacheNode.startServer: the server listens, or ListenAndServeTLS returns an
\* error and log.Fatalf ends the process.
startServer(p) ==
    \/ /\ Alive(p)
       /\ server[p] = "starting"
       /\ server' = [ server EXCEPT ![p] = "serving" ]
       /\ UNCHANGED << state, redundancy, nodeHB, hashRing, discovery, tasks, node,
                       data, now, last, calls, mtx, pc >>
    \/ /\ Alive(p)
       /\ EndProcess(p, "exited")
       /\ UNCHANGED << redundancy, now, last, calls, mtx, pc >>

(***************************************************************************)
(* Discovery: the three goroutines                                         *)
(*                                                                         *)
(* A task is "run" while it waits in its select, "read" while it is in     *)
(* readFromUDP, "done" once it has returned.  The tickers are not timed:   *)
(* a tick can arrive at any instant.                                       *)
(***************************************************************************)

\* sendHeartbeats: one pass of the loop.  The write changes nothing a process
\* holds: what it sent is in Heartbeats while the loop runs.
sendHeartbeats(p) ==
    \/ /\ tasks[p].sender = "run"
       /\ discovery[p].cancel = "called"
       /\ tasks' = [ tasks EXCEPT ![p].sender = "done" ]
       /\ UNCHANGED << state, redundancy, nodeHB, hashRing, discovery, node,
                       server, data, now, last, calls, mtx, pc >>
    \/ /\ tasks[p].sender = "run"
       /\ UNCHANGED vars

\* The filter of receiveHeartbeats on a parsed heartbeat.
Admits(info, myNodeID, myGroupID) ==
    /\ ~(info.ID = myNodeID)
    /\ ~(info.GroupID = myGroupID)

\* A receiver that goes back to readFromUDP without looking at ctx.Done().
AfterReadBlind(p) == "read"

\* The select at the head of the receiver's loop.
AfterRead(p) == IF discovery[p].cancel = "called" THEN "done" ELSE "read"

\* receiveHeartbeats: readFromUDP returns the datagram d, it is handled, and
\* the loop comes back to its select.
receiveHeartbeats(p, d) ==
    LET parsed == Unmarshal(d, node[p])
        my == NewVitarit[p]
        cache == IF ~parsed.err /\ Admits(parsed.node, my.ID, my.GroupID)
                 THEN addNode(Cache(p), parsed.node, now)
                 ELSE Cache(p)
    IN  /\ tasks[p].receiver = "read"
        /\ discovery[p].recvConn = "open"
        /\ node' = [ node EXCEPT ![p] = parsed.node ]
        /\ nodeHB' = [ nodeHB EXCEPT ![p] = cache.nodeHB ]
        /\ hashRing' = [ hashRing EXCEPT ![p] = cache.hashRing ]
        /\ tasks' = [ tasks EXCEPT ![p].receiver = AfterRead(p) ]
        /\ UNCHANGED << state, redundancy, discovery, server, data, now, last, calls, mtx, pc >>

\* receiveHeartbeats: readFromUDP returns an error, the socket being closed,
\* and the loop comes back to its select.
receiveError(p) ==
    /\ tasks[p].receiver = "read"
    /\ discovery[p].recvConn = "closed"
    /\ tasks' = [ tasks EXCEPT ![p].receiver = AfterRead(p) ]
    /\ UNCHANGED << state, redundancy, nodeHB, hashRing, discovery, node,
                    server, data, now, last, calls, mtx, pc >>

\* monitorHeartbeats: one pass of the loop; the range over nodeHB visits the
\* stale ids in some order.
monitorHeartbeats(p) ==
    \/ /\ tasks[p].monitor = "run"
       /\ discovery[p].cancel = "called"
       /\ tasks' = [ tasks EXCEPT ![p].monitor = "done" ]
       /\ UNCHANGED << state, redundancy, nodeHB, hashRing, discovery, node,
                       server, data, now, last, calls, mtx, pc >>
    \/ /\ tasks[p].monitor = "run"
       /\ \E order \in Orders(Stale(Cache(p), NewVitarit[p].ID, now)) :
            LET cache == RemoveAll(Cache(p), order)
            IN  /\ nodeHB' = [ nodeHB EXCEPT ![p] = cache.nodeHB ]
                /\ hashRing' = [ hashRing EXCEPT ![p] = cache.hashRing ]
       /\ UNCHANGED << state, redundancy, discovery, tasks, node, server, data,
                       now, last, calls, mtx, pc >>

\* Time passes: the clock is read once per monitor interval.
Tick ==
    /\ now < MaxTicks * monitorInterval
    /\ now' = now + monitorInterval
    /\ UNCHANGED << state, redundancy, nodeHB, hashRing, discovery, tasks, node,
                    server, data, last, calls, mtx, pc >>

(***************************************************************************)
(* cacheNode: the store and the endpoint of a process (cacheNode.go)       *)
(*                                                                         *)
(* A store is a function from the keys it holds to cacheData records.      *)
(***************************************************************************)

StatusOK == 200
StatusBadRequest == 400
StatusNotFound == 404
StatusMethodNotAllowed == 405

\* cacheNode.get: [bytes, exists]
cacheNode_get(store, key) ==
    IF key \in DOMAIN store
    THEN [ bytes |-> store[key].bytes, exists |-> TRUE ]
    ELSE [ bytes |-> << >>, exists |-> FALSE ]

\* cacheNode.set
cacheNode_set(store, key, copy, value) ==
    MapSet(store, key, [ bytes |-> value, copy |-> copy, crc |-> crcOfValue[value] ])

\* cacheNode.remove
cacheNode_remove(store, key) == MapDelete(store, key)

Str_key == << "k", "e", "y" >>
Str_copy == << "c", "o", "p", "y" >>

\* ServeHTTP, case GET, with r the result of cacheNode.get
serveGet(store, r) ==
    IF r.exists
    THEN [ status |-> StatusOK, body |-> r.bytes, store |-> store ]
    ELSE [ status |-> StatusNotFound, body |-> << >>, store |-> store ]

\* ServeHTTP, case POST, with copy the result of strconv.Atoi
servePost(store, copy, body) ==
    IF ~copy.ok
    THEN [ status |-> StatusBadRequest, body |-> << >>, store |-> store ]
    ELSE [ status |-> StatusOK, body |-> << >>,
           store |-> cacheNode_set(store, body.key, copy.val, body.value) ]

\* cacheNode.ServeHTTP on the store of the process: [status, body, store].
\* The body of a POST is the one pair [key, value] of the JSON object the
\* dispatcher marshals; encoding/json gives back the key and the bytes it
\* was given.
ServeHTTP(store, method, rawQuery, body) ==
    CASE method = "GET" ->
           serveGet(store, cacheNode_get(store, QueryGet(rawQuery, Str_key)))
      [] method = "POST" ->
           servePost(store, Atoi(QueryGet(rawQuery, Str_copy)), body)
      [] method = "DELETE" ->
           [ status |-> StatusOK, body |-> << >>,
             store |-> cacheNode_remove(store, QueryGet(rawQuery, Str_key)) ]
      [] OTHER -> [ status |-> StatusMethodNotAllowed, body |-> << >>, store |-> store ]

(***************************************************************************)
(* distributedCache: get, set, remove (distributedCache.go)                *)
(***************************************************************************)

\* The address a process listens on.
Address(p) == NewVitarit[p].IP \o << ":" >> \o NewVitarit[p].Port

\* The processes whose server answers at the host of a URL: none when the
\* connection fails.
Listeners(host) ==
    { q \in Procs : Alive(q) /\ server[q] = "serving" /\ Address(q) = host }

\* The response resp of the listener q, as the client sees it.
Answer(dd, q, resp) ==
    [ err |-> FALSE, status |-> resp.status, body |-> resp.body,
      data |-> [ dd EXCEPT ![q] = resp.store ] ]

\* The request to the processes that listen at its host: a connection error
\* when there is none.
Connect(dd, listeners, method, rawQuery, body) ==
    IF listeners = { }
    THEN [ err |-> TRUE, status |-> 0, body |-> << >>, data |-> dd ]
    ELSE LET q == CHOOSE x \in listeners : TRUE
         IN  Answer(dd, q, ServeHTTP(dd[q], method, rawQuery, body))

\* http.Client: the request reaches the listener, which serves it on the
\* stores dd; [err, status, body, data].
RoundTrip(dd, method, url, body) ==
    Connect(dd, Listeners(URLHost(url)), method, URLRawQuery(url), body)

\* getFromNode once client.Get has returned resp
getReply(resp) ==
    IF resp.err \/ resp.status # StatusOK
    THEN [ err |-> TRUE, value |-> << >> ]
    ELSE [ err |-> FALSE, value |-> resp.body ]

\* distributedCache.getFromNode on the stores dd: [err, value]
getFromNode(dd, cnode, key) ==
    getReply(RoundTrip(dd, "GET", createURL(cnode, key), << >>))

RECURSIVE GetLoop(_, _, _, _)
RECURSIVE GetStep(_, _, _, _, _)
\* The body of the loop of get at the index i, r being what getFromNode gave.
GetStep(dd, nodes, i, key, r) ==
    IF r.err THEN GetLoop(dd, nodes, i + 1, key)
    ELSE [ bytes |-> r.value, found |-> TRUE, tried |-> i ]

\* The loop of get from the (1 based) index i: [bytes, found, tried].
GetLoop(dd, nodes, i, key) ==
    IF i > Len(nodes) THEN [ bytes |-> << >>, found |-> FALSE, tried |-> Len(nodes) ]
    ELSE GetStep(dd, nodes, i, key, getFromNode(dd, nodes[i], key))

\* distributedCache.get of a cache with this ring and redundancy
get(dd, ring, r, key) == GetLoop(dd, getNodes(ring, key, r), 1, key)

\* setToNode once client.Post has returned resp: the status of the response
\* is not read.
setReply(resp) == [ err |-> resp.err, data |-> resp.data ]

\* distributedCache.setToNode on the stores dd: [err, data]
setToNode(dd, cnode, copy, key, value) ==
    setReply(RoundTrip(dd, "POST", createURLForSet(cnode, key, copy),
                       [ key |-> key, value |-> value ]))

RECURSIVE SetAll(_, _, _, _, _)
\* A set that writes to every node of the list instead of stopping at the
\* first success.
SetAll(dd, nodes, i, key, value) ==
    IF i > Len(nodes) THEN [ err |-> FALSE, data |-> dd, tried |-> Len(nodes) ]
    ELSE SetAll(setToNode(dd, nodes[i], (i - 1) - 1, key, value).data,
                nodes, i + 1, key, value)

RECURSIVE SetLoop(_, _, _, _, _)
RECURSIVE SetStep(_, _, _, _, _)
\* The body of the loop of set at the index i, r being what setToNode gave.
SetStep(nodes, i, key, value, r) ==
    IF ~r.err THEN [ err |-> FALSE, data |-> r.data, tried |-> i ]
    ELSE SetLoop(r.data, nodes, i + 1, key, value)

\* The loop of set from the (1 based) index i, which is idx + 1: [err, data, tried].
SetLoop(dd, nodes, i, key, value) ==
    IF i > Len(nodes) THEN [ err |-> Len(nodes) > 0, data |-> dd, tried |-> Len(nodes) ]
    ELSE SetStep(nodes, i, key, value, setToNode(dd, nodes[i], (i - 1) - 1, key, value))

\* distributedCache.set of a cache with this ring and redundancy
set(dd, ring, r, key, value) == SetLoop(dd, getNodes(ring, key, r), 1, key, value)

\* remove once client.Do has returned resp
removeReply(resp) == [ ok |-> ~resp.err, data |-> resp.data ]

\* distributedCache.remove of a cache with this ring: [ok, data]
remove(dd, ring, key) ==
    removeReply(RoundTrip(dd, "DELETE", createURL(getNode(ring, key), key), << >>))

\* The ids of the first n nodes of a replica list.
TriedIDs(nodes, n) == [ i \in 1..n |-> nodes[i].ID ]

CanCall(p) == Alive(p) /\ calls < MaxCalls

\* The record of a call that panicked.
Panicked(op, p, key, value) ==
    [ op |-> op, by |-> p, key |-> key, value |-> value, ok |-> FALSE,
      tried |-> << >>, panic |-> TRUE ]

\* A call on the process p indexes an empty ring: the process ends.
CallPanics(op, p, key, value) ==
    /\ EndProcess(p, "panicked")
    /\ last' = Panicked(op, p, key, value)
    /\ UNCHANGED << redundancy, now, mtx, pc >>

\* Vitarit.Get(key) on the process p
Get(p, key) ==
    /\ CanCall(p)
    /\ calls' = calls + 1
    /\ IF IndexPanics(hashRing[p])
       THEN CallPanics("get", p, key, << >>)
       ELSE /\ \E r \in { get(data, hashRing[p], redundancy[p], key) } :
                 last' = [ op |-> "get", by |-> p, key |-> key, value |-> r.bytes,
                           ok |-> r.found,
                           tried |-> TriedIDs(getNodes(hashRing[p], key, redundancy[p]), r.tried),
                           panic |-> FALSE ]
            /\ UNCHANGED << state, redundancy, nodeHB, hashRing, discovery, tasks,
                            node, server, data, now, mtx, pc >>

\* Vitarit.Set(key, value) on the process p
Set(p, key, value) ==
    /\ CanCall(p)
    /\ calls' = calls + 1
    /\ IF IndexPanics(hashRing[p])
       THEN CallPanics("set", p, key, value)
       ELSE /\ \E r \in { set(data, hashRing[p], redundancy[p], key, value) } :
                 /\ data' = r.data
                 /\ last' = [ op |-> "set", by |-> p, key |-> key, value |-> value,
                              ok |-> ~r.err,
                              tried |-> TriedIDs(getNodes(hashRing[p], key, redundancy[p]), r.tried),
                              panic |-> FALSE ]
            /\ UNCHANGED << state, redundancy, nodeHB, hashRing, discovery, tasks,
                            node, server, now, mtx, pc >>

\* Vitarit.Remove(key) on the process p
Remove(p, key) ==
    /\ CanCall(p)
    /\ calls' = calls + 1
    /\ IF IndexPanics(hashRing[p])
       THEN CallPanics("remove", p, key, << >>)
       ELSE /\ \E r \in { remove(data, hashRing[p], key) } :
                 /\ data' = r.data
                 /\ last' = [ op |-> "remove", by |-> p, key |-> key, value |-> << >>,
                              ok |-> r.ok, tried |-> << getNode(hashRing[p], key).ID >>,
                              panic |-> FALSE ]
            /\ UNCHANGED << state, redundancy, nodeHB, hashRing, discovery, tasks,
                            node, server, now, mtx, pc >>

(***************************************************************************)
(* Locks: distributedCache.mtx and hashRing.mtx                            *)
(*                                                                         *)
(* Here a goroutine takes one step at a time between its lock operations.  *)
(* pc[p][t] is the sequence of steps the goroutine t of the process p has  *)
(* still to take, empty when it is outside addNode, a sweep and a lookup;  *)
(* mtx[p] names the goroutine that holds each mutex, or is "free".         *)
(***************************************************************************)

Threads == { "receiver", "monitor", "client" }

Lock(m) == [ do |-> "Lock", mtx |-> m ]
Unlock(m) == [ do |-> "Unlock", mtx |-> m ]

\* hashRing.addNode: ring.mtx.Lock(), the body, the deferred Unlock.
ringAddNodeSteps == << Lock("ring"), [ do |-> "ring.add" ], Unlock("ring") >>

\* hashRing.removeNode(id)
ringRemoveNodeSteps(id) == << Lock("ring"), [ do |-> "ring.remove", id |-> id ], Unlock("ring") >>

\* distributedCache.addNode: cache.mtx.Lock(), the call of hashRing.addNode
\* when nodeHB lacks the id, nodeHB[node.ID] = time.Now(), the deferred Unlock.
addNodeSteps ==
    << Lock("cache"), [ do |-> "hashRing.addNode" ], [ do |-> "nodeHB.set" ], Unlock("cache") >>

\* monitorHeartbeats, case <-ticker.C with now == t: cache.mtx.Lock(), the
\* range over nodeHB, cache.mtx.Unlock().
sweepSteps(t) == << Lock("cache"), [ do |-> "range", now |-> t ], Unlock("cache") >>

\* The body of the range for a stale id: removeNode_unlocked(id).
removeNodeSteps(id) == << [ do |-> "nodeHB.delete", id |-> id ] >> \o ringRemoveNodeSteps(id)

\* A lookup that takes cache.mtx while it holds ring.mtx.
getNodesStepsUnderRegistry ==
    << Lock("ring"), Lock("cache"), [ do |-> "ring.search" ], Unlock("cache"), Unlock("ring") >>

\* hashRing.getNodes and hashRing.getNode, which get, set and remove call:
\* ring.mtx.Lock(), the search, the deferred Unlock.
getNodesSteps == << Lock("ring"), [ do |-> "ring.search" ], Unlock("ring") >>

\* The goroutine t of p has steps to take; its next step can be taken.
Pending(p, t) == pc[p][t] # << >>
CanStep(p, t) ==
    /\ Pending(p, t)
    /\ Head(pc[p][t]).do = "Lock" => mtx[p][Head(pc[p][t]).mtx] = "free"

\* The next step of the goroutine t of p.
DoStep(p, t) ==
    /\ Pending(p, t)
    /\ LET st == Head(pc[p][t])
           rest == Tail(pc[p][t])
       IN  CASE st.do = "Lock" ->
                  /\ mtx[p][st.mtx] = "free"
                  /\ mtx' = [ mtx EXCEPT ![p][st.mtx] = t ]
                  /\ pc' = [ pc EXCEPT ![p][t] = rest ]
                  /\ UNCHANGED << nodeHB, hashRing >>
             [] st.do = "Unlock" ->
                  /\ mtx' = [ mtx EXCEPT ![p][st.mtx] = "free" ]
                  /\ pc' = [ pc EXCEPT ![p][t] = rest ]
                  /\ UNCHANGED << nodeHB, hashRing >>
             [] st.do = "hashRing.addNode" ->
                  /\ pc' = [ pc EXCEPT ![p][t] =
                                IF node[p].ID \in DOMAIN nodeHB[p] THEN rest
                                ELSE ringAddNodeSteps \o rest ]
                  /\ UNCHANGED << nodeHB, hashRing, mtx >>
             [] st.do = "ring.add" ->
                  /\ hashRing' = [ hashRing EXCEPT ![p] = hashRing_addNode(@, node[p]) ]
                  /\ pc' = [ pc EXCEPT ![p][t] = rest ]
                  /\ UNCHANGED << nodeHB, mtx >>
             [] st.do = "nodeHB.set" ->
                  /\ nodeHB' = [ nodeHB EXCEPT ![p] = MapSet(@, node[p].ID, now) ]
                  /\ pc' = [ pc EXCEPT ![p][t] = rest ]
                  /\ UNCHANGED << hashRing, mtx >>
             [] st.do = "range" ->
                  /\ IF Stale(Cache(p), NewVitarit[p].ID, st.now) = { }
                     THEN pc' = [ pc EXCEPT ![p][t] = rest ]
                     ELSE \E id \in Stale(Cache(p), NewVitarit[p].ID, st.now) :
                              pc' = [ pc EXCEPT ![p][t] = removeNodeSteps(id) \o pc[p][t] ]
                  /\ UNCHANGED << nodeHB, hashRing, mtx >>
             [] st.do = "nodeHB.delete" ->
                  /\ nodeHB' = [ nodeHB EXCEPT ![p] = MapDelete(@, st.id) ]
                  /\ pc' = [ pc EXCEPT ![p][t] = rest ]
                  /\ UNCHANGED << hashRing, mtx >>
             [] st.do = "ring.remove" ->
                  /\ hashRing' = [ hashRing EXCEPT ![p] = hashRing_removeNode(@, st.id) ]
                  /\ pc' = [ pc EXCEPT ![p][t] = rest ]
                  /\ UNCHANGED << nodeHB, mtx >>
             [] st.do = "ring.search" ->
                  /\ pc' = [ pc EXCEPT ![p][t] = rest ]
                  /\ UNCHANGED << nodeHB, hashRing, mtx >>
    /\ UNCHANGED << state, redundancy, discovery, tasks, node, server, data, now, last, calls >>

\* receiveHeartbeats: readFromUDP returns the datagram d; when it parses and
\* passes the filter the receiver enters addNode.
readFromUDP(p, d) ==
    LET parsed == Unmarshal(d, node[p])
        my == NewVitarit[p]
    IN  /\ tasks[p].receiver = "read"
        /\ discovery[p].recvConn = "open"
        /\ ~Pending(p, "receiver")
        /\ node' = [ node EXCEPT ![p] = parsed.node ]
        /\ pc' = [ pc EXCEPT ![p].receiver =
                      IF ~parsed.err /\ Admits(parsed.node, my.ID, my.GroupID)
                      THEN addNodeSteps ELSE << >> ]
        /\ UNCHANGED << state, redundancy, nodeHB, hashRing, discovery, tasks, server,
                        data, now, last, calls, mtx >>

\* monitorHeartbeats: the ticker fires and the monitor reads the clock.
tickerC(p) ==
    /\ tasks[p].monitor = "run"
    /\ ~Pending(p, "monitor")
    /\ pc' = [ pc EXCEPT ![p].monitor = sweepSteps(now) ]
    /\ UNCHANGED << state, redundancy, nodeHB, hashRing, discovery, tasks, node, server,
                    data, now, last, calls, mtx >>

\* get, set or remove on the caller's goroutine: the lookup on the ring; the
\* requests that follow it hold no lock.
lookup(p) ==
    /\ Alive(p)
    /\ ~Pending(p, "client")
    /\ pc' = [ pc EXCEPT ![p].client = getNodesSteps ]
    /\ UNCHANGED << state, redundancy, nodeHB, hashRing, discovery, tasks, node, server,
                    data, now, last, calls, mtx >>

(***************************************************************************)
(* The ring alone                                                          *)
(***************************************************************************)

\* hashRing.addNode on the ring of p.  The slice nodes can grow without
\* limit when ids collide, so the model stops adding at MaxNodes.
RingAdd(p, info) ==
    /\ Len(hashRing[p].nodes) < MaxNodes
    /\ hashRing' = [ hashRing EXCEPT ![p] = hashRing_addNode(@, info) ]
    /\ UNCHANGED << state, redundancy, nodeHB, discovery, tasks, node, server,
                    data, now, last, calls, mtx, pc >>

\* hashRing.removeNode on the ring of p
RingRemove(p, id) ==
    /\ hashRing' = [ hashRing EXCEPT ![p] = hashRing_removeNode(@, id) ]
    /\ UNCHANGED << state, redundancy, nodeHB, discovery, tasks, node, server,
                    data, now, last, calls, mtx, pc >>

\* The processes whose rings RingSpec drives.
RingProcs == { "p1" }

RingNext ==
    \/ \E p \in RingProcs, info \in Peers : RingAdd(p, info)
    \/ \E p \in RingProcs, info \in Peers : RingRemove(p, info.ID)

\* Any sequence of addNode and removeNode on a ring.
RingSpec == Init /\ [][RingNext]_vars

(***************************************************************************)
(* Specifications                                                          *)
(***************************************************************************)

\* One process on a LAN whose other hosts send the datagrams of Lan.
Next ==
    \/ \E setup \in SetupOutcomes : Start("p1", 1, setup)
    \/ \E p \in Procs : Stop(p)
    \/ \E p \in Procs : startServer(p)
    \/ \E p \in Procs : sendHeartbeats(p)
    \/ \E p \in Procs, d \in Heartbeats \cup Lan : receiveHeartbeats(p, d)
    \/ \E p \in Procs : receiveError(p)
    \/ \E p \in Procs : monitorHeartbeats(p)
    \/ Tick

Spec == Init /\ [][Next]_vars

\* A process with an id of its own hash on a LAN whose other hosts send the
\* datagrams of Lan, two of them under ids of one hash.
LanNext ==
    \/ Start("p2", 1, "ok")
    \/ \E p \in Procs : Stop(p)
    \/ \E p \in Procs : sendHeartbeats(p)
    \/ \E p \in Procs, d \in Lan : receiveHeartbeats(p, d)
    \/ \E p \in Procs : receiveError(p)
    \/ \E p \in Procs : monitorHeartbeats(p)
    \/ Tick

LanSpec == Init /\ [][LanNext]_vars

\* The same process with goroutines that are scheduled: the monitor's and
\* the sender's tickers fire again and again, and a read of a closed socket
\* returns.  The other hosts are the two whose ids have one hash, and one
\* that sends no JSON; each stops sending when it pleases.
LiveProcs == { "p2" }

LiveLan == { Marshal(NewVitarit["p1"]), Marshal(Stranger), Garbage }

LiveNext ==
    \/ Start("p2", 1, "ok")
    \/ \E p \in Procs : Stop(p)
    \/ \E p \in Procs : sendHeartbeats(p)
    \/ \E p \in Procs, d \in LiveLan : receiveHeartbeats(p, d)
    \/ \E p \in Procs : receiveError(p)
    \/ \E p \in Procs : monitorHeartbeats(p)
    \/ Tick

LiveSpec ==
    /\ Init
    /\ [][LiveNext]_vars
    /\ \A p \in LiveProcs :
         /\ WF_vars(monitorHeartbeats(p))
         /\ WF_vars(sendHeartbeats(p))
         /\ WF_vars(receiveError(p))

\* A process on the LAN of LiveLan, its receiver, its monitor and a client,
\* interleaved at their lock operations.
LockProcs == { "p2" }

LockNext ==
    \/ \E p \in LockProcs : Start(p, 1, "ok")
    \/ \E p \in LockProcs, d \in LiveLan : readFromUDP(p, d)
    \/ \E p \in LockProcs : tickerC(p)
    \/ \E p \in LockProcs : lookup(p)
    \/ \E p \in LockProcs, t \in Threads : DoStep(p, t)
    \/ Tick

LockSpec == Init /\ [][LockNext]_vars

\* Two processes of one group that hear each other until they are stopped.
GroupProcs == { "p1", "p3" }

FairNext ==
    \/ \E p \in GroupProcs : Start(p, 1, "ok")
    \/ \E p \in Procs : Stop(p)
    \/ \E p \in Procs : sendHeartbeats(p)
    \/ \E p \in Procs, d \in Heartbeats : receiveHeartbeats(p, d)
    \/ \E p \in Procs : receiveError(p)
    \/ \E p \in Procs : monitorHeartbeats(p)
    \/ Tick

\* A receiver that can take the heartbeat of a process forever takes it.
FairSpec ==
    /\ Init
    /\ [][FairNext]_vars
    /\ \A p \in GroupProcs, q \in GroupProcs :
         WF_vars(receiveHeartbeats(p, Marshal(NewVitarit[q])))

\* The heartbeats of the other processes: in the specifications of the
\* clients a process does not read its own heartbeat, which changes nothing
\* a call reads.
HeartbeatsOfOthers(p) == Heartbeats \ { Marshal(NewVitarit[p]) }

\* Two processes of two groups and their clients.
CallProcs == { "p1", "p2" }

CallNext ==
    \/ \E p \in CallProcs, r \in 0..MaxRedundancy : Start(p, r, "ok")
    \/ \E p \in Procs : startServer(p)
    \/ \E p \in Procs : \E d \in HeartbeatsOfOthers(p) : receiveHeartbeats(p, d)
    \/ \E p \in Procs, k \in Keys : Get(p, k)
    \/ \E p \in Procs, k \in Keys, v \in Values : Set(p, k, v)
    \/ \E p \in Procs, k \in Keys : Remove(p, k)

CallSpec == Init /\ [][CallNext]_vars

\* Two processes of one group and their clients, on a key of letters.
PlainKeys == { << "k" >> }

GroupNext ==
    \/ \E p \in GroupProcs, r \in 0..MaxRedundancy : Start(p, r, "ok")
    \/ \E p \in Procs : startServer(p)
    \/ \E p \in Procs : \E d \in HeartbeatsOfOthers(p) : receiveHeartbeats(p, d)
    \/ \E p \in Procs, k \in PlainKeys : Get(p, k)
    \/ \E p \in Procs, k \in PlainKeys, v \in Values : Set(p, k, v)
    \/ \E p \in Procs, k \in PlainKeys : Remove(p, k)

GroupSpec == Init /\ [][GroupNext]_vars

\* Two processes of two groups, one with an id that needs escaping.
EscapeProcs == { "p1", "p4" }

EscapeNext ==
    \/ \E p \in EscapeProcs, r \in 0..MaxRedundancy : Start(p, r, "ok")
    \/ \E p \in Procs : startServer(p)
    \/ \E p \in Procs : \E d \in HeartbeatsOfOthers(p) : receiveHeartbeats(p, d)
    \/ \E p \in Procs, k \in PlainKeys : Get(p, k)
    \/ \E p \in Procs, k \in PlainKeys, v \in Values : Set(p, k, v)
    \/ \E p \in Procs, k \in PlainKeys : Remove(p, k)

EscapeSpec == Init /\ [][EscapeNext]_vars

(***************************************************************************)
(* Properties                                                              *)
(***************************************************************************)

\* The processes that run, and the process that answers for a node of a ring.
Running == { p \in Procs : state[p] = "started" }
Reachable(p) == Listeners(Address(p)) = { p }
HolderOf(cnode) == Listeners(cnode.IP \o << ":" >> \o cnode.Port)

\* Discovery has converged: no ring holds a node that does not run, and the
\* heartbeat of a running node changes no registry and no ring.
Converged ==
    \A p \in Running :
        /\ { hashRing[p].nodeMap[h].ID : h \in DOMAIN hashRing[p].nodeMap } \subseteq { NewVitarit[q].ID : q \in Running }
        /\ \A q \in Running :
              LET my == NewVitarit[p]
                  cache == IF Admits(NewVitarit[q], my.ID, my.GroupID)
                           THEN addNode(Cache(p), NewVitarit[q], now)
                           ELSE Cache(p)
              IN  /\ DOMAIN cache.nodeHB = DOMAIN nodeHB[p]
                  /\ cache.hashRing = hashRing[p]

\* The ids of the peers a ring stores.
RingIDs(ring) == { ring.nodeMap[h].ID : h \in DOMAIN ring.nodeMap }

\* C3 -- Multi-node round trip: when the N running nodes are of one group,
\* every redundancy is below N, every endpoint is reachable and discovery
\* has converged, a SET(k, v) through any node followed by a GET(k) through
\* any node returns (v, true).
RoundTripAcrossNodes ==
    ( /\ Running # { }
      /\ \A p \in Running, q \in Running : NewVitarit[p].GroupID = NewVitarit[q].GroupID
      /\ \A p \in Running : redundancy[p] < Cardinality(Running) /\ Reachable(p)
      /\ Converged )
    => \A p \in Running, q \in Running, k \in PlainKeys, v \in Values :
           LET s == set(data, hashRing[p], redundancy[p], k, v)
               g == get(s.data, hashRing[q], redundancy[q], k)
           IN  ~s.err /\ g.found /\ g.bytes = v

\* C4 -- Single-node round trip: on the one started node, with redundancy 0
\* and a reachable endpoint, for every key k and value v: SET(k, v) then
\* GET(k) returns (v, true); GET of a key never set returns false; REMOVE(k)
\* then GET(k) returns false.
SingleNodeRoundTrip ==
    \A p \in Procs :
        ( /\ state[p] = "started"
          /\ \A q \in Procs \ { p } : state[q] = "new"
          /\ redundancy[p] = 0
          /\ Reachable(p) )
        => \A k \in Keys :
               /\ \A v \in Values :
                     LET s == set(data, hashRing[p], 0, k, v)
                         g == get(s.data, hashRing[p], 0, k)
                     IN  ~s.err /\ g.found /\ g.bytes = v
               /\ k \notin DOMAIN data[p] => ~get(data, hashRing[p], 0, k).found
               /\ LET r == remove(data, hashRing[p], k)
                  IN  ~get(r.data, hashRing[p], 0, k).found

\* C5 -- GET failover: GET(k) returns (bytes, true) with the payload of the
\* first peer of the replica list that is reachable and holds k, having
\* tried the peers before it in order, and returns (empty, false) exactly
\* when no peer of the list is reachable and holds k.
GetFailover ==
    \A p \in Running : \A k \in Keys :
        LET nodes == getNodes(hashRing[p], k, redundancy[p])
            g == get(data, hashRing[p], redundancy[p], k)
            Holds(i) == \E q \in HolderOf(nodes[i]) : k \in DOMAIN data[q]
        IN  ~IndexPanics(hashRing[p]) =>
                IF \E i \in 1..Len(nodes) : Holds(i)
                THEN LET j == CHOOSE i \in 1..Len(nodes) :
                                  Holds(i) /\ \A h \in 1..(i - 1) : ~Holds(h)
                     IN  /\ g.found
                         /\ g.tried = j
                         /\ \E q \in HolderOf(nodes[j]) : g.bytes = data[q][k].bytes
                ELSE ~g.found /\ g.bytes = << >>

SetNeedsSuccessCode ==
    \A p \in Running : \A k \in PlainKeys, v \in Values :
        LET nodes == getNodes(hashRing[p], k, redundancy[p])
            s == set(data, hashRing[p], redundancy[p], k, v)
        IN  (~IndexPanics(hashRing[p]) /\ ~s.err) =>
                RoundTrip(data, "POST", createURLForSet(nodes[s.tried], k, s.tried - 2),
                          [ key |-> k, value |-> v ]).status = StatusOK

\* C8 -- REMOVE touches the primary only: REMOVE(k) sends one delete, to the
\* node getNode(k) returns; the store of every other peer is as it was, and
\* so is every key of the primary other than k.
RemovePrimaryOnly ==
    \A p \in Running : \A k \in Keys :
        LET r == remove(data, hashRing[p], k)
            primary == HolderOf(getNode(hashRing[p], k))
        IN  ~IndexPanics(hashRing[p]) =>
                \A q \in Procs :
                    IF q \in primary
                    THEN /\ DOMAIN r.data[q] \subseteq DOMAIN data[q]
                         /\ \A k2 \in DOMAIN data[q] \ { k } :
                               k2 \in DOMAIN r.data[q] /\ r.data[q][k2] = data[q][k2]
                    ELSE r.data[q] = data[q]

\* C1 -- Group isolation: in every state of every node, each peer in the
\* node's registry or ring other than the node itself has the group tag of
\* the node.
GroupIsolation ==
    \A p \in Procs :
        /\ \A h \in DOMAIN hashRing[p].nodeMap :
              hashRing[p].nodeMap[h].ID # NewVitarit[p].ID
                  => hashRing[p].nodeMap[h].GroupID = NewVitarit[p].GroupID
        /\ \A id \in DOMAIN nodeHB[p] :
              id # NewVitarit[p].ID
                  => \A q \in Peers : q.ID = id => q.GroupID = NewVitarit[p].GroupID

\* C2 -- Discovery convergence: when two processes of one group, with ids
\* that differ, both keep running and each keeps receiving the heartbeats of
\* the other, then eventually each is in the registry and the ring of the
\* other, and stays there.
Convergence ==
    \A n \in GroupProcs : \A p \in GroupProcs \ { n } :
        <>[](state[n] = "started" /\ state[p] = "started")
            => <>[](/\ NewVitarit[p].ID \in DOMAIN nodeHB[n]
                    /\ NewVitarit[p].ID \in RingIDs(hashRing[n]))

\* C9 -- Registry/Ring agreement: in every state of a running node the ids of
\* nodeHB are the ids of the peers the ring stores, also when ids collide.
RegistryRingAgreement ==
    \A p \in Procs : Alive(p) => DOMAIN nodeHB[p] = RingIDs(hashRing[p])

\* C10 -- Ring structural invariant: after any sequence of addNode and
\* removeNode, sortedHashes is strictly ascending and its hashes are the
\* keys of nodeMap.
RingStructure ==
    \A p \in Procs :
        LET ring == hashRing[p]
        IN  /\ \A i \in 1..(Len(ring.sortedHashes) - 1) :
                  ring.sortedHashes[i] < ring.sortedHashes[i + 1]
            /\ { ring.sortedHashes[i] : i \in 1..Len(ring.sortedHashes) }
                   = DOMAIN ring.nodeMap

\* A ring of three hashes that went through a removeNode of a colliding id:
\* the slice nodes holds a peer more than the ring has hashes.
RingStructureCase ==
    \E p \in Procs :
        /\ Len(hashRing[p].sortedHashes) = 3
        /\ Len(hashRing[p].nodes) > Len(hashRing[p].sortedHashes)

\* The peers a ring stores, and the number of its entries.
RingPeers(ring) == { ring.nodeMap[h] : h \in DOMAIN ring.nodeMap }
RingSize(ring) == Len(ring.sortedHashes)

\* min(a, b)
Min(a, b) == IF a < b THEN a ELSE b

\* C11 -- Replica list size and head: for every ring that is not empty,
\* every key k and every redundancy r >= 0, getNodes(k, r) is a list of
\* exactly min(ring size, r + 1) peers whose first is the peer getNode(k)
\* returns on the same ring.
ReplicaListSizeAndHead ==
    \A p \in Procs :
        LET ring == hashRing[p]
        IN  ~IndexPanics(ring) =>
                \A k \in Keys : \A r \in 0..MaxNodes :
                    LET nodes == getNodes(ring, k, r)
                    IN  /\ Len(nodes) = Min(RingSize(ring), r + 1)
                        /\ nodes[1] = getNode(ring, k)

\* A ring of three entries on which a key has a replica list that stops
\* because the walk came back to the primary.
ReplicaListCase ==
    \E p \in Procs : \E k \in Keys :
        /\ RingSize(hashRing[p]) = 3
        /\ Len(getNodes(hashRing[p], k, MaxNodes)) = 3
        /\ Len(getNodes(hashRing[p], k, 1)) = 2

\* The hashes of a ring, and the hash that owns a key on a ring that is not
\* empty: the least hash at or above the hash of the key, the least hash of
\* all when there is none.
RingHashes(ring) == DOMAIN ring.nodeMap
Least(hs) == CHOOSE h \in hs : \A g \in hs : h <= g
OwnerHash(ring, key) ==
    LET above == { h \in RingHashes(ring) : h >= Hash(key) }
    IN  IF above # { } THEN Least(above) ELSE Least(RingHashes(ring))

\* C12 -- Primary lookup: on every ring that is not empty and for every key
\* k, getNode(k) is the peer stored under the least ring hash >= hash(k), or
\* under the least ring hash of all when no ring hash is >= hash(k); it is a
\* peer the ring stores, its id has that hash, and the lookup fails only on
\* the empty ring.
PrimaryLookup ==
    \A p \in Procs : \A k \in Keys :
        LET ring == hashRing[p]
        IN  /\ IndexPanics(ring) <=> RingHashes(ring) = { }
            /\ ~IndexPanics(ring) =>
                    /\ getNode(ring, k) = ring.nodeMap[OwnerHash(ring, k)]
                    /\ getNode(ring, k) \in RingPeers(ring)
                    /\ Hash(getNode(ring, k).ID) = OwnerHash(ring, k)

\* A ring of two entries or more, all of them below the hash of a key: the
\* lookup of the key wraps to the first entry.
PrimaryWrapCase ==
    \E p \in Procs : \E k \in Keys :
        /\ RingSize(hashRing[p]) >= 2
        /\ \A h \in RingHashes(hashRing[p]) : h < Hash(k)
        /\ getNode(hashRing[p], k) = hashRing[p].nodeMap[hashRing[p].sortedHashes[1]]

RECURSIVE AddAll(_, _)
\* The ring after addNode of the peers of a sequence, in its order.
AddAll(ring, infos) ==
    IF infos = << >> THEN ring
    ELSE AddAll(hashRing_addNode(ring, Head(infos)), Tail(infos))

\* C17 -- Lookups depend on the peer set alone: a ring built by any sequence
\* of addNode and removeNode gives, for every key k and redundancy r, the
\* getNode(k) and the getNodes(k, r) of the ring built by adding the peers
\* it stores in any order; so two rings that store the same set of peers
\* give the same lookups however they were built.
LookupOfPeerSet ==
    \A p \in Procs :
        \A order \in Orders(RingPeers(hashRing[p])) :
            LET other == AddAll(NewHashRing, order)
            IN  /\ RingPeers(other) = RingPeers(hashRing[p])
                /\ \A k \in Keys :
                      /\ getNode(other, k) = getNode(hashRing[p], k)
                      /\ \A r \in 0..MaxNodes :
                            getNodes(other, k, r) = getNodes(hashRing[p], k, r)

\* A ring of three peers that were added in an order that is not the order
\* of their hashes, after a removeNode left a peer in its slice of nodes.
SamePeersCase ==
    \E p \in Procs :
        /\ RingSize(hashRing[p]) = 3
        /\ Len(hashRing[p].nodes) = 4
        /\ \E i \in 1..3 : Hash(hashRing[p].nodes[i].ID) > Hash(hashRing[p].nodes[i + 1].ID)

\* The (1 based) index of the entry that owns a key in sortedHashes.
OwnerIndex(ring, key) == FirstHash(ring.sortedHashes, OwnerHash(ring, key))

\* The entry j - 1 steps clockwise (towards higher hashes, wrapping) of the
\* entry at the index i.
Clockwise(ring, i, j) ==
    ring.nodeMap[ring.sortedHashes[((i - 1 + j - 1) % RingSize(ring)) + 1]]

\* C18 -- Replica list order: the peers of getNodes(k, r) are pairwise
\* distinct and are the consecutive ring entries in clockwise order
\* (ascending hash, wrapping) from the primary; when r + 1 > ring size the
\* list holds every peer of the ring exactly once.
ReplicaListOrder ==
    \A p \in Procs :
        LET ring == hashRing[p]
        IN  ~IndexPanics(ring) =>
                \A k \in Keys : \A r \in 0..MaxNodes :
                    LET nodes == getNodes(ring, k, r)
                    IN  /\ \A i, j \in 1..Len(nodes) : i # j => nodes[i] # nodes[j]
                        /\ \A j \in 1..Len(nodes) :
                              nodes[j] = Clockwise(ring, OwnerIndex(ring, k), j)
                        /\ r + 1 > RingSize(ring) =>
                              /\ Len(nodes) = RingSize(ring)
                              /\ { nodes[j] : j \in 1..Len(nodes) } = RingPeers(ring)

\* A ring of three entries and a key whose primary is the last of them: the
\* replica list of two wraps to the first entry.
ReplicaWrapCase ==
    \E p \in Procs : \E k \in Keys :
        /\ RingSize(hashRing[p]) = 3
        /\ OwnerIndex(hashRing[p], k) = 3
        /\ getNodes(hashRing[p], k, 1)[2] = hashRing[p].nodeMap[hashRing[p].sortedHashes[1]]

\* The caches one sweep of monitorHeartbeats can leave on the process p at
\* this instant: one for each order in which the range visits the stale ids.
Sweeps(p) ==
    { RemoveAll(Cache(p), order) : order \in Orders(Stale(Cache(p), NewVitarit[p].ID, now)) }

\* C13 -- Sweep postcondition: right after a sweep of the monitor at the
\* instant now, no peer other than the local node that was last seen more
\* than monitorInterval before now is in the registry or in the ring, and
\* every peer last seen within monitorInterval, and the local node, is in
\* the registry and in the ring as it was before the sweep.
SweepPostcondition ==
    \A p \in Running : \A cache \in Sweeps(p) :
        /\ \A id \in DOMAIN nodeHB[p] :
              (id # NewVitarit[p].ID /\ Expired(nodeHB[p][id], now))
                  => /\ id \notin DOMAIN cache.nodeHB
                     /\ id \notin RingIDs(cache.hashRing)
        /\ \A id \in DOMAIN nodeHB[p] :
              (id = NewVitarit[p].ID \/ ~Expired(nodeHB[p][id], now))
                  => /\ id \in DOMAIN cache.nodeHB
                     /\ id \in RingIDs(hashRing[p]) => id \in RingIDs(cache.hashRing)

\* C14 -- The local node is permanent: from the end of Start until Stop, in
\* every state the nodeInfo of the local node is in its registry and in its
\* ring, whatever heartbeats were received and whatever peers the monitor
\* expired; so the ring is never empty and no lookup fails.
LocalNodePermanent ==
    \A p \in Running :
        /\ NewVitarit[p].ID \in DOMAIN nodeHB[p]
        /\ NewVitarit[p] \in RingPeers(hashRing[p])
        /\ ~IndexPanics(hashRing[p])

\* C20 -- No false expiry: a peer other than the local node whose last
\* admitted heartbeat is no older than monitorInterval at the instant of a
\* sweep is in the registry after the sweep, and in the ring if it was
\* there before it, whatever the receiver and the monitor did before.
NoFalseExpiry ==
    \A p \in Running : \A cache \in Sweeps(p) :
        \A id \in DOMAIN nodeHB[p] \ { NewVitarit[p].ID } :
            ~Expired(nodeHB[p][id], now)
                => /\ id \in DOMAIN cache.nodeHB
                   /\ id \in RingIDs(hashRing[p]) => id \in RingIDs(cache.hashRing)

\* The rank the endpoint reads from the URL of a SET: [ok, val].
RankReceived(cnode, key, copy) ==
    Atoi(QueryGet(URLRawQuery(createURLForSet(cnode, key, copy)), Str_copy))

\* C19 -- Replica rank passed by SET: the peer at the 0 based position i of
\* the replica list receives copy = i - 1 (the primary -1, the first
\* redundant peer 0), and the peer that takes the value stores the bytes
\* together with the rank it received.
SetRank ==
    \A p \in Running : \A k \in Keys, v \in Values :
        LET nodes == getNodes(hashRing[p], k, redundancy[p])
            s == set(data, hashRing[p], redundancy[p], k, v)
        IN  ~IndexPanics(hashRing[p]) =>
                /\ \A j \in 1..Len(nodes) :
                      RankReceived(nodes[j], k, (j - 1) - 1) = [ ok |-> TRUE, val |-> (j - 1) - 1 ]
                /\ ~s.err =>
                      \A q \in HolderOf(nodes[s.tried]) :
                          /\ k \in DOMAIN s.data[q]
                          /\ s.data[q][k].bytes = v
                          /\ s.data[q][k].copy = (s.tried - 1) - 1

\* The ids of the peers the lookups of a ring return for the keys.
LookupIDs(ring) ==
    IF IndexPanics(ring) THEN { }
    ELSE UNION { { getNode(ring, k).ID } \cup
                 { getNodes(ring, k, MaxNodes)[j].ID : j \in 1..Len(getNodes(ring, k, MaxNodes)) } :
                 k \in Keys }

\* A sweep of the monitor removes every peer that is stale from the
\* registry and from the ring, and the lookups of a ring return peers of its
\* registry alone.
DetectsAtSweep ==
    \A p \in Running :
        /\ LookupIDs(hashRing[p]) \subseteq DOMAIN nodeHB[p]
        /\ \A cache \in Sweeps(p) :
              /\ LookupIDs(cache.hashRing) \subseteq DOMAIN cache.nodeHB
              /\ \A id \in Stale(Cache(p), NewVitarit[p].ID, now) :
                    /\ id \notin DOMAIN cache.nodeHB
                    /\ id \notin RingIDs(cache.hashRing)
                    /\ id \notin LookupIDs(cache.hashRing)

\* C15 -- Failure detection: when no heartbeat of a peer has been admitted
\* for more than monitorInterval, a running node removes the peer from its
\* registry and its ring at the next sweep of its monitor, which comes; from
\* then on, until a heartbeat of the peer is admitted again, getNode and
\* getNodes on that node return peers of the registry only.
FailureDetection ==
    /\ []DetectsAtSweep
    /\ \A p \in LiveProcs :
          (state[p] = "started" /\ Stale(Cache(p), NewVitarit[p].ID, now) # { })
              ~> (state[p] # "started" \/ Stale(Cache(p), NewVitarit[p].ID, now) = { })

\* The peer of the last heartbeat a running node admitted is no longer in
\* its registry nor in its ring: the monitor removed it.
DetectedCase ==
    \E p \in Running :
        /\ Admits(node[p], NewVitarit[p].ID, NewVitarit[p].GroupID)
        /\ node[p] \in Peers
        /\ node[p].ID \notin DOMAIN nodeHB[p]
        /\ node[p].ID \notin RingIDs(hashRing[p])
        /\ ~IndexPanics(hashRing[p])

\* A goroutine of discovery that has returned changes neither the registry
\* nor the ring: after the receiver nothing is added or refreshed, after the
\* monitor nothing is removed.
QuietAfterExit ==
    \A p \in Procs :
        /\ tasks[p].receiver = "done" =>
              \A id \in DOMAIN nodeHB'[p] :
                  id \in DOMAIN nodeHB[p] /\ nodeHB'[p][id] = nodeHB[p][id]
        /\ tasks[p].monitor = "done" => DOMAIN nodeHB[p] \subseteq DOMAIN nodeHB'[p]
        /\ (tasks[p].receiver = "done" /\ tasks[p].monitor = "done") =>
              hashRing'[p] = hashRing[p]

\* C16 -- Shutdown terminates discovery: once Stop has called cancel and
\* closed both sockets of a running discovery, the sender, the receiver and
\* the monitor each return; the receiver, blocked in its read, is woken by
\* the close and then sees the cancellation; and none of them changes the
\* registry or the ring after it has returned.
ShutdownTerminates ==
    /\ \A p \in LiveProcs :
          (state[p] = "stopped")
              ~> (tasks[p] = [ monitor |-> "done", sender |-> "done", receiver |-> "done" ])
    /\ [][QuietAfterExit]_vars

\* A stopped process whose three goroutines have returned, with a peer in
\* its registry.
ShutdownCase ==
    \E p \in Procs :
        /\ state[p] = "stopped"
        /\ tasks[p] = [ monitor |-> "done", sender |-> "done", receiver |-> "done" ]
        /\ Cardinality(DOMAIN nodeHB[p]) >= 2

\* The goroutine t of p waits for a mutex that another goroutine, or t
\* itself, holds; the holder it waits for.
Blocked(p, t) == Pending(p, t) /\ ~CanStep(p, t)
WaitsFor(p, t) == mtx[p][Head(pc[p][t]).mtx]

\* A step in which a goroutine takes cache.mtx does not find it holding
\* ring.mtx.
RegistryBeforeRing ==
    \A p \in Procs : \A t \in Threads :
        (mtx[p].cache # t /\ mtx'[p].cache = t) => mtx[p].ring # t

\* A step of a goroutine that changes the ring is taken by the holder of
\* cache.mtx, who holds ring.mtx too.
RingUnderRegistry ==
    \A p \in Procs :
        (state[p] = "started" /\ hashRing'[p] # hashRing[p])
            => \E t \in Threads :
                   /\ mtx[p].cache = t /\ mtx[p].ring = t
                   /\ mtx'[p].cache = t /\ mtx'[p].ring = t
                   /\ pc'[p][t] # pc[p][t]

\* No set of goroutines waits in a circle, each for a mutex that one of the
\* set holds.
NoDeadlock ==
    \A p \in Procs :
        ~\E S \in SUBSET Threads \ { { } } :
            \A t \in S : Blocked(p, t) /\ WaitsFor(p, t) \in S

\* C21 -- Lock discipline: a goroutine that holds both cache.mtx (the
\* registry's) and ring.mtx took cache.mtx first; the ring is changed only
\* while cache.mtx is held; and no interleaving of the receiver, the
\* monitor and the lookups of get, set and remove reaches a deadlock.
LockDiscipline ==
    /\ [][RegistryBeforeRing /\ RingUnderRegistry]_vars
    /\ []NoDeadlock
    /\ [](\A p \in Procs : \A t \in Threads :
            (mtx[p].cache = "free" /\ mtx[p].ring = t) => t = "client")

\* The monitor waits for cache.mtx, which the receiver holds inside addNode
\* while it waits for ring.mtx, which a lookup of the client holds.
LockChainCase ==
    \E p \in Procs :
        /\ Blocked(p, "monitor") /\ WaitsFor(p, "monitor") = "receiver"
        /\ Blocked(p, "receiver") /\ WaitsFor(p, "receiver") = "client"
        /\ CanStep(p, "client")

\* C22 -- No-ops of the ring: addNode of a peer whose hash the ring has
\* leaves nodes, sortedHashes and nodeMap as they are, so the peer first
\* seen under the hash is kept, also when the later peer has another id of
\* the same hash; removeNode of an id whose hash the ring lacks leaves the
\* ring as it is.
RingNoOps ==
    \A p \in Procs : \A info \in Peers :
        LET ring == hashRing[p]
        IN  /\ Hash(info.ID) \in RingHashes(ring) =>
                  /\ hashRing_addNode(ring, info) = ring
                  /\ hashRing_addNode(ring, info).nodeMap[Hash(info.ID)] = ring.nodeMap[Hash(info.ID)]
            /\ Hash(info.ID) \notin RingHashes(ring) =>
                  hashRing_removeNode(ring, info.ID) = ring

\* A ring of two entries that stores one of the two peers whose ids have
\* one hash: addNode of the other is a no-op with another id.
CollidingAddCase ==
    \E p \in Procs : \E info \in Peers :
        /\ RingSize(hashRing[p]) >= 2
        /\ Hash(info.ID) \in RingHashes(hashRing[p])
        /\ hashRing[p].nodeMap[Hash(info.ID)].ID # info.ID

\* C23 -- Heartbeats are independent: the nodeInfo the receiver filters and
\* passes to addNode for a datagram that parses is that of the datagram's
\* payload alone; no field of an earlier heartbeat is carried into it,
\* also when the payload lacks a member.
HeartbeatsIndependent ==
    \A p \in Running : \A d \in Lan :
        ~Unmarshal(d, node[p]).err
            => Unmarshal(d, node[p]).node = Unmarshal(d, ZeroNodeInfo).node

\* C24 -- Stop is safe after any Start: whatever setupMulticastUDP did, a
\* started process has a cancel function for Stop to call and sockets for
\* it to close, and no process has panicked in Stop.
StopIsSafe ==
    \A p \in Procs :
        /\ state[p] # "panicked"
        /\ state[p] = "started" =>
              /\ discovery[p].cancel # "nil"
              /\ discovery[p].sendConn # "nil"
              /\ discovery[p].recvConn # "nil"

=============================================================================
